---- MODULE Spec2Model ----
(***************************************************************************)
(* Model of the LLM inference gateway of src/app/main.py: the FastAPI      *)
(* handlers (GET /health, POST /inference, GET /models, GET /model/{name}) *)
(* and the startup warm-up, each split at its awaits on the Ollama         *)
(* backend.  The backend is external: what it answers to one call is an    *)
(* input of the step that awaits that call.                                *)
(*                                                                         *)
(* Python values: None is <<>> and a present optional value v is <<v>>;    *)
(* a JSON object is a function from the keys it holds; a float is written  *)
(* in tenths.                                                              *)
(***************************************************************************)
EXTENDS Integers, Sequences, FiniteSets, TLC

VARIABLES
    pc,              \* position of the request handler in flight ("idle" when none)
    request,         \* the handler's argument (InferenceRequest, model_name, or None)
    ollama_healthy,  \* local of health_check: result of check_ollama_health()
    calls,           \* backend calls issued by the handler in flight, in order
    replies,         \* what the backend answered to those calls, in order
    response,        \* what the handler returned or raised (None while running)
    startup          \* startup_event: its position, locals and the calls it made

vars == <<pc, request, ollama_healthy, calls, replies, response, startup>>

----------------------------------------------------------------------------
(* Bounds of the model *)

MaxCount == 1        \* backend counters (durations, token counts) range over 0..MaxCount
MaxModels == 2       \* the backend's tag list holds at most MaxModels entries

(* Program constants *)

MODEL_NAME == "gemma2:2b"
max_retries == 30

None == <<>>
Some(v) == <<v>>

----------------------------------------------------------------------------
(* The backend's answers *)

StatusCodes == {200, 404, 500, 504}

\* httpx raises: a connection-level failure, or a timeout (httpx.TimeoutException
\* and its subclasses)
HttpxErrors == {"ConnectError", "TimeoutException"}

Raised(e) == [kind |-> "raise", exc |-> [type |-> e]]
Reply(s, b) == [kind |-> "response", status_code |-> s, body |-> b]

\* A response body: its text, and the JSON document it parses to, if it does
Text(t) == [text |-> t, json |-> None]
Json(d) == [text |-> "json", json |-> Some(d)]

ErrorTexts == {"model not found", "overloaded"}

Failures == {Raised(e) : e \in HttpxErrors}
    \cup {Reply(s, Text(t)) : s \in StatusCodes \ {200}, t \in ErrorTexts}

VersionOutcomes == Failures \cup {Reply(200, Json([version |-> "0.3"]))}

ModelNames == {MODEL_NAME, "llama3:8b"}

\* An entry of the tag list: an object that holds a name, or one that does not
TagEntries == {[name |-> n] : n \in ModelNames} \cup {[size |-> 1]}

TagLists == UNION {[1..n -> TagEntries] : n \in 0..MaxModels}

\* Among them, a non-200 answer that carries a model list all the same
TagsOutcomes == Failures
    \cup {Reply(500, Json([models |-> <<[name |-> MODEL_NAME]>>]))}
    \cup {Reply(200, Text("not json"))}
    \cup {Reply(200, Json([status |-> "ok"]))}
    \cup {Reply(200, Json([models |-> ms])) : ms \in TagLists}

----------------------------------------------------------------------------
(* Helpers of the handlers *)

\* Mutant: a falsy value is taken for a missing one (d.get(key) or None)
Get_mut(d, key) == IF key \in DOMAIN d /\ d[key] # 0 THEN Some(d[key]) ELSE None

\* dict.get(key): None when the key is absent
Get(d, key) == IF key \in DOMAIN d THEN Some(d[key]) ELSE None

\* dict.get(key, default)
GetD(d, key, default) == IF key \in DOMAIN d THEN d[key] ELSE default

\* x in list
In(x, list) == \E k \in DOMAIN list : list[k] = x

\* Mutant: any answer counts, whatever its status
check_ollama_health_mut(v) == v.kind = "response"

check_ollama_health(v) ==
    IF v.kind = "raise" THEN FALSE ELSE v.status_code = 200

\* Mutant: the status of the answer is not looked at
get_available_models_mut(t) ==
    IF t.kind = "raise" THEN <<>>
    ELSE IF t.body.json = None THEN <<>>
    ELSE LET models == GetD(t.body.json[1], "models", <<>>) IN
         IF \E k \in DOMAIN models : "name" \notin DOMAIN models[k] THEN <<>>
         ELSE [k \in DOMAIN models |-> models[k]["name"]]

get_available_models(t) ==
    IF t.kind = "raise" THEN <<>>
    ELSE IF t.status_code = 200 THEN
        IF t.body.json = None THEN <<>>
        ELSE LET models == GetD(t.body.json[1], "models", <<>>) IN
             IF \E k \in DOMAIN models : "name" \notin DOMAIN models[k] THEN <<>>
             ELSE [k \in DOMAIN models |-> models[k]["name"]]
    ELSE <<>>

HTTPException(s, d) ==
    [kind |-> "raise", exc |-> [type |-> "HTTPException", status_code |-> s, detail |-> d]]

Return(v) == [kind |-> "return", value |-> v]

Call(op, timeout, json) == [op |-> op, timeout |-> timeout, json |-> json]

----------------------------------------------------------------------------
(* GET /health *)

\* Mutant: the model's availability is not looked at
HealthResponse_mut(healthy, available_models) ==
    IF healthy THEN
        [status |-> "healthy", ollama_status |-> "running",
         available_models |-> available_models]
    ELSE
        [status |-> "unhealthy", ollama_status |-> "not responding",
         available_models |-> available_models]

HealthResponse(healthy, available_models) ==
    IF healthy /\ In(MODEL_NAME, available_models) THEN
        [status |-> "healthy", ollama_status |-> "running",
         available_models |-> available_models]
    ELSE IF healthy THEN
        [status |-> "partial", ollama_status |-> "running",
         available_models |-> available_models]
    ELSE
        [status |-> "unhealthy", ollama_status |-> "not responding",
         available_models |-> available_models]

HealthReceive ==
    /\ pc = "idle"
    /\ pc' = "health:version"
    /\ calls' = <<Call("version", 50, None)>>
    /\ UNCHANGED <<request, ollama_healthy, replies, response, startup>>

HealthVersion ==
    /\ pc = "health:version"
    /\ \E v \in VersionOutcomes :
        /\ replies' = Append(replies, v)
        /\ ollama_healthy' = Some(check_ollama_health(v))
    /\ calls' = Append(calls, Call("tags", 100, None))
    /\ pc' = "health:tags"
    /\ UNCHANGED <<request, response, startup>>

HealthTags ==
    /\ pc = "health:tags"
    /\ \E t \in TagsOutcomes :
        /\ replies' = Append(replies, t)
        /\ response' = Some(Return(HealthResponse(ollama_healthy[1], get_available_models(t))))
    /\ pc' = "health:done"
    /\ UNCHANGED <<request, ollama_healthy, calls, startup>>

----------------------------------------------------------------------------
(* GET /models *)

ModelsReceive ==
    /\ pc = "idle"
    /\ pc' = "models:tags"
    /\ calls' = <<Call("tags", 100, None)>>
    /\ UNCHANGED <<request, ollama_healthy, replies, response, startup>>

ModelsTags ==
    /\ pc = "models:tags"
    /\ \E t \in TagsOutcomes :
        /\ replies' = Append(replies, t)
        /\ response' = Some(Return(get_available_models(t)))
    /\ pc' = "models:done"
    /\ UNCHANGED <<request, ollama_healthy, calls, startup>>

----------------------------------------------------------------------------
(* POST /inference *)

Prompts == {"hi", "Write a short poem about programming."}
MaxTokensValues == {1, 512}
Temperatures == {0, 7}
TopPs == {9, 10}

InferenceRequests ==
    [prompt : Prompts, max_tokens : MaxTokensValues, temperature : Temperatures,
     top_p : TopPs, stream : BOOLEAN]

ResponseTexts == {"", "hello"}

OptionalFields ==
    {"total_duration", "load_duration", "prompt_eval_count",
     "prompt_eval_duration", "eval_count", "eval_duration"}

\* The objects the backend answers a generate call with on a 200: the four
\* fixed keys and any subset of the optional counters; or an object with none
\* of them
GenerateResults ==
    {[response |-> r, model |-> "gemma2:2b-q4", created_at |-> "2024-01-01T00:00:00Z",
      done |-> TRUE] @@ o :
        r \in ResponseTexts,
        o \in UNION {[S -> 0..MaxCount] : S \in SUBSET OptionalFields}}
    \cup {[context |-> "none"]}

GenerateOutcomes == Failures
    \cup {Reply(200, Text("not json"))}
    \cup {Reply(200, Json(d)) : d \in GenerateResults}

InferencePayload(req) ==
    [model |-> MODEL_NAME,
     prompt |-> req.prompt,
     stream |-> req.stream,
     options |-> [num_predict |-> req.max_tokens,
                  temperature |-> req.temperature,
                  top_p |-> req.top_p]]

InferenceResponse(result) ==
    [response |-> GetD(result, "response", ""),
     model |-> GetD(result, "model", MODEL_NAME),
     created_at |-> GetD(result, "created_at", ""),
     done |-> GetD(result, "done", TRUE),
     total_duration |-> Get(result, "total_duration"),
     load_duration |-> Get(result, "load_duration"),
     prompt_eval_count |-> Get(result, "prompt_eval_count"),
     prompt_eval_duration |-> Get(result, "prompt_eval_duration"),
     eval_count |-> Get(result, "eval_count"),
     eval_duration |-> Get(result, "eval_duration")]

\* The body of the try block, from the backend's answer on
InferenceTry(g) ==
    IF g.kind = "raise" THEN g
    ELSE IF g.status_code # 200 THEN
        HTTPException(g.status_code, <<"Ollama request failed: ", g.body.text>>)
    ELSE IF g.body.json = None THEN Raised("JSONDecodeError")
    ELSE Return(InferenceResponse(g.body.json[1]))

\* Mutant: no clause for httpx.TimeoutException
InferenceExcept_mut(outcome) ==
    IF outcome.kind = "return" THEN outcome
    ELSE HTTPException(500, <<"Internal server error: ", outcome.exc>>)

\* The except clauses of the try block
InferenceExcept(outcome) ==
    IF outcome.kind = "return" THEN outcome
    ELSE IF outcome.exc.type = "TimeoutException" THEN
        HTTPException(504, <<"Request timed out. The model might be loading or the prompt is too complex.">>)
    ELSE HTTPException(500, <<"Internal server error: ", outcome.exc>>)

InferenceReceive ==
    /\ pc = "idle"
    /\ \E req \in InferenceRequests : request' = Some(req)
    /\ pc' = "inference:version"
    /\ calls' = <<Call("version", 50, None)>>
    /\ UNCHANGED <<ollama_healthy, replies, response, startup>>

InferenceVersion ==
    /\ pc = "inference:version"
    /\ \E v \in VersionOutcomes :
        /\ replies' = Append(replies, v)
        /\ IF ~check_ollama_health(v)
           THEN /\ response' = Some(HTTPException(503, <<"Ollama service is not available">>))
                /\ pc' = "inference:done"
                /\ UNCHANGED calls
           ELSE /\ calls' = Append(calls, Call("generate", 600, Some(InferencePayload(request[1]))))
                /\ pc' = "inference:generate"
                /\ UNCHANGED response
    /\ UNCHANGED <<request, ollama_healthy, startup>>

InferenceGenerate ==
    /\ pc = "inference:generate"
    /\ \E g \in GenerateOutcomes :
        /\ replies' = Append(replies, g)
        /\ response' = Some(InferenceExcept(InferenceTry(g)))
    /\ pc' = "inference:done"
    /\ UNCHANGED <<request, ollama_healthy, calls, startup>>

----------------------------------------------------------------------------
(* GET /model/{model_name} *)

ModelPathNames == {MODEL_NAME, "nonexistent"}

ShowResults ==
    {[size |-> 5, digest |-> "sha256:ab", details |-> [family |-> "gemma2"]],
     [size |-> 5, details |-> [name |-> "gemma2"]],
     [license |-> "gemma"]}

ShowOutcomes == Failures
    \cup {Reply(200, Text("not json"))}
    \cup {Reply(200, Json(d)) : d \in ShowResults}

ModelInfo(data, model_name) ==
    [name |-> GetD(GetD(data, "details", <<>>), "name", model_name),
     size |-> GetD(data, "size", 0),
     digest |-> GetD(data, "digest", ""),
     details |-> GetD(data, "details", <<>>)]

\* The body of the try block, from the backend's answer on
ModelInfoTry(model_name, s) ==
    IF s.kind = "raise" THEN s
    ELSE IF s.status_code = 404 THEN
        HTTPException(404, <<"Model '", model_name, "' not found">>)
    ELSE IF s.status_code # 200 THEN
        HTTPException(s.status_code, <<"Failed to get model information">>)
    ELSE IF s.body.json = None THEN Raised("JSONDecodeError")
    ELSE Return(ModelInfo(s.body.json[1], model_name))

\* Mutant: no clause re-raising HTTPException
ModelInfoExcept_mut(outcome) ==
    IF outcome.kind = "return" THEN outcome
    ELSE HTTPException(500, <<"Internal server error: ", outcome.exc>>)

\* The except clauses of the try block
ModelInfoExcept(outcome) ==
    IF outcome.kind = "return" THEN outcome
    ELSE IF outcome.exc.type = "HTTPException" THEN outcome
    ELSE HTTPException(500, <<"Internal server error: ", outcome.exc>>)

ModelInfoReceive ==
    /\ pc = "idle"
    /\ \E model_name \in ModelPathNames :
        /\ request' = Some(model_name)
        /\ calls' = <<Call("show", 100, Some([name |-> model_name]))>>
    /\ pc' = "model:show"
    /\ UNCHANGED <<ollama_healthy, replies, response, startup>>

ModelInfoShow ==
    /\ pc = "model:show"
    /\ \E s \in ShowOutcomes :
        /\ replies' = Append(replies, s)
        /\ response' = Some(ModelInfoExcept(ModelInfoTry(request[1], s)))
    /\ pc' = "model:done"
    /\ UNCHANGED <<request, ollama_healthy, calls, startup>>

----------------------------------------------------------------------------
(* The response leaves; the handler's frame is discarded *)

Respond ==
    /\ pc \in {"health:done", "models:done", "inference:done", "model:done"}
    /\ pc' = "idle"
    /\ request' = None
    /\ ollama_healthy' = None
    /\ calls' = <<>>
    /\ replies' = <<>>
    /\ response' = None
    /\ UNCHANGED startup

----------------------------------------------------------------------------
(* startup_event: the warm-up.  Its loop runs up to max_retries times, so   *)
(* the calls it makes are counted, not logged.                              *)

\* ensure_model_loaded: the payload of the warm-up generate call
WarmupPayload ==
    [model |-> MODEL_NAME, prompt |-> "Hello", stream |-> FALSE,
     options |-> [num_predict |-> 1]]

ensure_model_loaded(g) ==
    IF g.kind = "raise" THEN FALSE ELSE g.status_code = 200

\* Mutant: one iteration too many
LoopContinues_mut(i) == i + 1 <= max_retries

\* for i in range(max_retries): whether the loop goes on after iteration i
LoopContinues(i) == i + 1 < max_retries

StartupBegin ==
    /\ startup.pc = "start"
    /\ startup' = [startup EXCEPT !.pc = "probe", !.i = 0, !.version_calls = 1]
    /\ UNCHANGED <<pc, request, ollama_healthy, calls, replies, response>>

\* Mutant: no break, the loop waits and polls on after a probe that succeeded
StartupProbe_mut ==
    /\ startup.pc = "probe"
    /\ \E v \in VersionOutcomes :
        startup' = [startup EXCEPT !.pc = "sleep", !.probe = Some(v), !.sleeps = @ + 1]
    /\ UNCHANGED <<pc, request, ollama_healthy, calls, replies, response>>

\* check_ollama_health() answers in iteration i
StartupProbe ==
    /\ startup.pc = "probe"
    /\ \E v \in VersionOutcomes :
        IF check_ollama_health(v)
        THEN startup' = [startup EXCEPT !.pc = "tags", !.probe = Some(v),
                                        !.tags_calls = @ + 1]
        ELSE startup' = [startup EXCEPT !.pc = "sleep", !.probe = Some(v),
                                        !.sleeps = @ + 1]
    /\ UNCHANGED <<pc, request, ollama_healthy, calls, replies, response>>

\* asyncio.sleep(2) ends: the next iteration, or the loop's else branch
StartupSleep ==
    /\ startup.pc = "sleep"
    /\ IF LoopContinues(startup.i)
       THEN startup' = [startup EXCEPT !.pc = "probe", !.i = @ + 1,
                                       !.version_calls = @ + 1]
       ELSE startup' = [startup EXCEPT !.pc = "done", !.outcome = "gave up"]
    /\ UNCHANGED <<pc, request, ollama_healthy, calls, replies, response>>

\* get_available_models() answers
StartupTags ==
    /\ startup.pc = "tags"
    /\ \E t \in TagsOutcomes :
        LET models == get_available_models(t) IN
        IF In(MODEL_NAME, models)
        THEN startup' = [startup EXCEPT !.pc = "warm", !.models = models,
                                        !.generate_calls = Append(@, WarmupPayload)]
        ELSE startup' = [startup EXCEPT !.pc = "done", !.models = models,
                                        !.outcome = "model not available"]
    /\ UNCHANGED <<pc, request, ollama_healthy, calls, replies, response>>

\* ensure_model_loaded() answers
StartupWarm ==
    /\ startup.pc = "warm"
    /\ \E g \in GenerateOutcomes :
        startup' = [startup EXCEPT !.pc = "done",
                        !.outcome = IF ensure_model_loaded(g) THEN "warmed up"
                                    ELSE "warm-up failed"]
    /\ UNCHANGED <<pc, request, ollama_healthy, calls, replies, response>>

----------------------------------------------------------------------------

Init ==
    /\ pc = "idle"
    /\ request = None
    /\ ollama_healthy = None
    /\ calls = <<>>
    /\ replies = <<>>
    /\ response = None
    /\ startup = [pc |-> "start", i |-> 0, probe |-> None, version_calls |-> 0, sleeps |-> 0,
                  tags_calls |-> 0, generate_calls |-> <<>>, models |-> <<>>,
                  outcome |-> "running"]

Next ==
    \/ HealthReceive \/ HealthVersion \/ HealthTags
    \/ ModelsReceive \/ ModelsTags
    \/ InferenceReceive \/ InferenceVersion \/ InferenceGenerate
    \/ ModelInfoReceive \/ ModelInfoShow
    \/ Respond

\* The request handlers.  They read none of startup_event's state and share
\* none with each other or across requests, so one request is in flight at a
\* time and the warm-up is explored on its own.
Spec == Init /\ [][Next]_vars

StartupNext ==
    \/ StartupBegin \/ StartupProbe \/ StartupSleep \/ StartupTags \/ StartupWarm

\* The warm-up that runs when the process starts
StartupSpec == Init /\ [][StartupNext]_vars

----------------------------------------------------------------------------
(* What the claims speak of, read off the backend's answers themselves *)

\* The version check succeeded: the backend answered 200
Reachable(v) == v.kind = "response" /\ v.status_code = 200

\* The backend answered with a status other than 200
Non200(r) == r.kind = "response" /\ r.status_code # 200

\* The tag list is a 200 whose document holds a list of named models
ListingOk(t) ==
    /\ t.kind = "response" /\ t.status_code = 200
    /\ t.body.json # None
    /\ "models" \in DOMAIN t.body.json[1]
    /\ \A k \in DOMAIN t.body.json[1]["models"] :
           "name" \in DOMAIN t.body.json[1]["models"][k]

\* The names the backend lists; none when listing fails
Listed(t) ==
    IF ListingOk(t)
    THEN {t.body.json[1]["models"][k]["name"] : k \in DOMAIN t.body.json[1]["models"]}
    ELSE {}

\* The handler in flight raised HTTPException with status s
Raises(s) ==
    /\ response # None
    /\ response[1].kind = "raise"
    /\ response[1].exc.status_code = s

GenerateIssued == \E k \in DOMAIN calls : calls[k].op = "generate"

----------------------------------------------------------------------------
(* C1: GET /health answers healthy when the version check succeeds and the  *)
(* target model is among the listed models, partial (ollama_status running) *)
(* when it succeeds and the model is not listed or listing fails, unhealthy *)
(* (ollama_status not responding) when it fails; always one of the three.   *)
C1_HealthClassification ==
    pc = "health:done" =>
        LET v == replies[1]
            t == replies[2]
            out == response[1].value
        IN  /\ response[1].kind = "return"
            /\ out.status \in {"healthy", "partial", "unhealthy"}
            /\ (Reachable(v) /\ MODEL_NAME \in Listed(t)) =>
                   (out.status = "healthy" /\ out.ollama_status = "running")
            /\ (Reachable(v) /\ MODEL_NAME \notin Listed(t)) =>
                   (out.status = "partial" /\ out.ollama_status = "running")
            /\ ~Reachable(v) =>
                   (out.status = "unhealthy" /\ out.ollama_status = "not responding")

C1_Witness ==
    /\ pc = "health:done"
    /\ Reachable(replies[1])
    /\ replies[2].kind = "raise"
    /\ response[1].value.status = "partial"
    /\ response[1].value.ollama_status = "running"

(* C2: whenever GET /health answers unhealthy, its available_models list is *)
(* empty, whatever the tag-list endpoint answers.                           *)
C2_UnhealthyHasNoModels ==
    (pc = "health:done" /\ response[1].value.status = "unhealthy") =>
        Len(response[1].value.available_models) = 0

(* C3: POST /inference, version check passed, generate answered with a      *)
(* status s other than 200: the handler raises HTTPException with status s  *)
(* and the backend's body in its detail.                                    *)
C3_BackendStatusVerbatim ==
    (pc = "inference:done" /\ Len(replies) = 2 /\ Non200(replies[2])) =>
        /\ Raises(replies[2].status_code)
        /\ response[1].exc.detail = <<"Ollama request failed: ", replies[2].body.text>>

(* C4: POST /inference: a failed version check ends the request with 503    *)
(* and no generate call; a generate call is issued only after the version   *)
(* check of the same request succeeded.                                     *)
C4_NoGenerateWhenUnreachable ==
    /\ (pc = "inference:done" /\ ~Reachable(replies[1])) =>
           (Raises(503) /\ ~GenerateIssued /\ Len(replies) = 1)
    /\ GenerateIssued => (Len(replies) >= 1 /\ Reachable(replies[1]))

C4_Witness ==
    /\ pc = "inference:done"
    /\ Non200(replies[1])
    /\ Raises(503)
    /\ ~GenerateIssued

(* C5: POST /inference: a generate call that times out ends with 504; a     *)
(* 504 comes from nothing but a timeout (or a backend that itself answered  *)
(* 504), and a timeout is never reported as 500 or a backend status.        *)
C5_TimeoutIs504 ==
    (pc = "inference:done" /\ Len(replies) = 2) =>
        LET g == replies[2] IN
        /\ (g.kind = "raise" /\ g.exc.type = "TimeoutException") => Raises(504)
        /\ Raises(504) =>
               \/ (g.kind = "raise" /\ g.exc.type = "TimeoutException")
               \/ (Non200(g) /\ g.status_code = 504)

C5_Witness ==
    /\ pc = "inference:done"
    /\ Len(replies) = 2
    /\ replies[2].kind = "raise"
    /\ replies[2].exc.type = "TimeoutException"
    /\ Raises(504)

(* C6: the payload of every generate call of POST /inference has stream     *)
(* false, the configured model, the request's prompt, and num_predict,      *)
(* temperature and top_p from the request, also for a request with          *)
(* stream=true.                                                             *)
C6_PayloadNeverStreams ==
    (pc \in {"inference:generate", "inference:done"} /\ Len(calls) = 2) =>
        LET payload == calls[2].json[1]
            req == request[1]
        IN  /\ payload.stream = FALSE
            /\ payload.model = MODEL_NAME
            /\ payload.prompt = req.prompt
            /\ payload.options.num_predict = req.max_tokens
            /\ payload.options.temperature = req.temperature
            /\ payload.options.top_p = req.top_p

(* C7: when no probe finds the backend, the warm-up makes exactly           *)
(* max_retries (30) probes, one wait before each new probe, then returns    *)
(* without having listed models or called generate.                         *)
C7_WarmupGivesUp ==
    /\ startup.pc \in {"probe", "sleep"} =>
           /\ startup.version_calls = startup.i + 1
           /\ startup.version_calls <= 30
           /\ startup.sleeps = IF startup.pc = "probe" THEN startup.i ELSE startup.i + 1
           /\ startup.tags_calls = 0
           /\ Len(startup.generate_calls) = 0
    /\ startup.outcome = "gave up" =>
           /\ startup.pc = "done"
           /\ startup.version_calls = 30
           /\ startup.tags_calls = 0
           /\ Len(startup.generate_calls) = 0
    /\ (startup.pc = "sleep" /\ startup.version_calls = 30) => ~LoopContinues(startup.i)

C7_Witness ==
    /\ startup.pc = "done"
    /\ startup.outcome = "gave up"
    /\ startup.version_calls = 30
    /\ startup.sleeps >= 29

(* C8: GET /model/{name}: a 404 from the backend's show call ends with 404, *)
(* any other non-200 status s ends with status s; neither becomes 500.      *)
C8_ShowStatusKept ==
    (pc = "model:done" /\ Non200(replies[1])) =>
        /\ Raises(replies[1].status_code)
        /\ replies[1].status_code = 404 =>
               response[1].exc.detail = <<"Model '", request[1], "' not found">>

C8_Witness ==
    /\ pc = "model:done"
    /\ Non200(replies[1])
    /\ replies[1].status_code = 500
    /\ Raises(500)

(* C9: GET /models returns a list, never an error: the empty list when the  *)
(* tag list answers with a non-200 status, exactly the backend's model      *)
(* names, in order, when it answers 200 with a list of named models.        *)
C9_ListModels ==
    pc = "models:done" =>
        LET t == replies[1] IN
        /\ response[1].kind = "return"
        /\ Non200(t) => Len(response[1].value) = 0
        /\ ListingOk(t) =>
               LET ms == t.body.json[1]["models"] IN
               /\ Len(response[1].value) = Len(ms)
               /\ \A k \in DOMAIN ms : response[1].value[k] = ms[k]["name"]

C9_Witness ==
    /\ pc = "models:done"
    /\ Non200(replies[1])
    /\ replies[1].body.json # None
    /\ response[1].kind = "return"
    /\ Len(response[1].value) = 0

\* The backend's answer to generate is a 200 whose document holds the keys
\* every generate result holds
WellFormed(g) ==
    /\ g.kind = "response" /\ g.status_code = 200
    /\ g.body.json # None
    /\ {"response", "model", "created_at", "done"} \subseteq DOMAIN g.body.json[1]

(* C10: on a 200 with a well-formed result, the InferenceResponse's text is *)
(* the backend's response field, and each optional counter is None exactly  *)
(* when the backend's result lacks it and else holds the backend's value    *)
(* (0 stays 0).                                                             *)
C10_ResponseFieldsKept ==
    (pc = "inference:done" /\ Len(replies) = 2 /\ WellFormed(replies[2])) =>
        LET result == replies[2].body.json[1] IN
        /\ response[1].kind = "return"
        /\ response[1].value.response = result["response"]
        /\ \A f \in OptionalFields :
               /\ f \notin DOMAIN result => response[1].value[f] = None
               /\ f \in DOMAIN result => response[1].value[f] = Some(result[f])

C10_Witness ==
    /\ pc = "inference:done"
    /\ Len(replies) = 2
    /\ WellFormed(replies[2])
    /\ "total_duration" \in DOMAIN replies[2].body.json[1]
    /\ replies[2].body.json[1]["total_duration"] = 0
    /\ "eval_count" \notin DOMAIN replies[2].body.json[1]
    /\ response[1].value.total_duration = Some(0)
    /\ response[1].value.eval_count = None

(* C11: the warm-up stops polling at the first probe the backend answers    *)
(* with 200: no probe and no wait follows it, whether or not the model is   *)
(* listed.  It then makes exactly one generate call (target model,          *)
(* num_predict 1) when the target model is among the listed models and none *)
(* when it is not, and returns whatever that call comes to.                 *)
C11_WarmupStopsAtFirstReachable ==
    /\ startup.pc = "sleep" => ~Reachable(startup.probe[1])
    /\ (startup.pc \in {"tags", "warm", "done"} /\ startup.outcome # "gave up") =>
           /\ Reachable(startup.probe[1])
           /\ startup.version_calls = startup.i + 1
           /\ startup.sleeps = startup.i
           /\ startup.tags_calls = 1
    /\ startup.pc = "tags" => Len(startup.generate_calls) = 0
    /\ startup.pc = "warm" =>
           /\ In(MODEL_NAME, startup.models)
           /\ Len(startup.generate_calls) = 1
    /\ startup.pc = "done" =>
           /\ startup.outcome \in
                  {"gave up", "model not available", "warmed up", "warm-up failed"}
           /\ startup.outcome = "model not available" =>
                  (~In(MODEL_NAME, startup.models) /\ Len(startup.generate_calls) = 0)
           /\ startup.outcome \in {"warmed up", "warm-up failed"} =>
                  (In(MODEL_NAME, startup.models) /\ Len(startup.generate_calls) = 1)
    /\ \A k \in DOMAIN startup.generate_calls :
           /\ startup.generate_calls[k].model = MODEL_NAME
           /\ startup.generate_calls[k].options.num_predict = 1

C11_Witness ==
    /\ startup.pc = "done"
    /\ startup.outcome = "warm-up failed"
    /\ Reachable(startup.probe[1])
    /\ startup.i = 2
    /\ startup.version_calls = 3
    /\ startup.sleeps = 2
    /\ Len(startup.generate_calls) = 1

\* The backend refused the connection of call k of the request in flight
Unreachable(k) ==
    /\ k \in DOMAIN replies
    /\ replies[k].kind = "raise"
    /\ replies[k].exc.type = "ConnectError"

(* C12: POST /inference ends with 503 whenever the backend is unreachable,  *)
(* at the version check or, the backend having gone down since, at the      *)
(* generate call; never with 500; and a request makes at most one generate  *)
(* call.                                                                    *)
C12_UnreachableIs503 ==
    /\ (pc = "inference:done" /\ (Unreachable(1) \/ Unreachable(2))) => Raises(503)
    /\ pc \in {"inference:version", "inference:generate", "inference:done"} =>
           Cardinality({k \in DOMAIN calls : calls[k].op = "generate"}) <= 1

====
